---- MODULE Spec2Model ----
(***************************************************************************)
(* Room state of src/room.rs: the delta merger Room::update, the           *)
(* visualization builder Room::visualize and the VisualObject comparator.  *)
(***************************************************************************)
EXTENDS Integers, Sequences, FiniteSets, TLC

VARIABLES
    last_update_time,   \* Room.last_update_time : Option<u32>
    room,               \* Room.room : RoomId
    terrain,            \* Room.terrain : RoomTerrain
    objects,            \* Room.objects : HashMap<String, KnownRoomObject>
    flags,              \* Room.flags : Vec<Flag>
    users,              \* Room.users : HashMap<String, RoomUserInfo>
    call,               \* the last Room::update call the caller still holds:
                        \* its argument, the iteration orders of its maps, the
                        \* room before it and its Result; None when dropped
    vis,                \* the VisualRoom the caller still holds; None when dropped
    carried,            \* history: the game_time of the latest delta that
                        \* carried one; None while none did
    probe,              \* three VisualObject values handed to the comparator
    verdict,            \* what Ord::cmp and PartialEq::eq returned for them
    new_call,           \* the Room::new call: its arguments and whether it
                        \* returned a Room or panicked; None before the call
    history             \* history: whether every Room::update so far returned
                        \* Ok, and how each id was last mentioned by a delta

vars == <<last_update_time, room, terrain, objects, flags, users, call, vis,
          carried, probe, verdict, new_call, history>>

-----------------------------------------------------------------------------
(* Option<T> *)
None == <<>>
Some(v) == <<v>>
IsSome(o) == o # <<>>
Unwrap(o) == o[1]

(* Bounds of the model *)
GridSize == 3
MaxTime == 2
MaxFlags == 2

Coords == 0 .. (GridSize - 1)

(* All sequences over S that list every element of S once: the orders in   *)
(* which a HashMap with key set S may be iterated.                         *)
RECURSIVE Orders(_)
Orders(S) ==
    IF S = {} THEN {<<>>}
    ELSE UNION {{<<e>> \o o : o \in Orders(S \ {e})} : e \in S}

(* All sequences over S of length at most n *)
SeqsUpTo(S, n) == UNION {[1 .. k -> S] : k \in 0 .. n}

MapRemove(m, k) == [j \in DOMAIN m \ {k} |-> m[j]]
MapInsert(m, k, v) == [j \in DOMAIN m \cup {k} |-> IF j = k THEN v ELSE m[j]]

-----------------------------------------------------------------------------
(* JSON values of a delta's object set. An object payload carries any of   *)
(* "type", "x", "y"; its "_id" is the key it is sent under. A malformed    *)
(* value is one no entity and no entity update deserializes from.          *)
JsonNull == [json |-> "null", type |-> None, x |-> None, y |-> None]
JsonMalformed == [json |-> "malformed", type |-> None, x |-> None, y |-> None]
JsonObject(t, x, y) == [json |-> "object", type |-> t, x |-> x, y |-> y]

(* JSON values of a delta's user set *)
UserNull == [json |-> "null", id |-> None, username |-> None]
UserMalformed == [json |-> "malformed", id |-> None, username |-> None]
UserObject(i, n) == [json |-> "object", id |-> i, username |-> n]

(* serde_json::from_value::<KnownRoomObject>: a complete entity *)
ParsesAsEntity(data) ==
    /\ data.json = "object"
    /\ IsSome(data.type) /\ IsSome(data.x) /\ IsSome(data.y)

ParseEntity(id, data) ==
    [kind |-> Unwrap(data.type), id |-> id, x |-> Unwrap(data.x), y |-> Unwrap(data.y)]

(* KnownRoomObject::update: the payload deserializes as the update of the  *)
(* entity's own kind, every field optional and "type" not one of them      *)
ParsesAsUpdate(data) == data.json = "object"

MergeEntity(e, data) ==
    [e EXCEPT !.x = IF IsSome(data.x) THEN Unwrap(data.x) ELSE @,
              !.y = IF IsSome(data.y) THEN Unwrap(data.y) ELSE @]

(* serde_json::from_value::<RoomUserInfo> and ::<RoomUserInfoUpdate> *)
ParsesAsUser(data) == data.json = "object" /\ IsSome(data.id)

ParseUser(data) == [user_id |-> Unwrap(data.id), username |-> data.username]

ParsesAsUserUpdate(data) == data.json = "object"

MergeUser(u, data) ==
    [u EXCEPT !.user_id = IF IsSome(data.id) THEN Unwrap(data.id) ELSE @,
              !.username = IF IsSome(data.username) THEN data.username ELSE @]

-----------------------------------------------------------------------------
(* Faulty variant of UpdateObject: a payload for an id the room lacks is     *)
(* skipped                                                                 *)
UpdateObject_IgnoresVacant(objs, id, data) ==
    IF data.json = "null"
    THEN [ok |-> TRUE, objects |-> MapRemove(objs, id)]
    ELSE IF id \in DOMAIN objs
         THEN IF ParsesAsUpdate(data)
              THEN [ok |-> TRUE,
                    objects |-> [objs EXCEPT ![id] = MergeEntity(@, data)]]
              ELSE [ok |-> FALSE, objects |-> objs]
         ELSE IF ParsesAsEntity(data)
              THEN [ok |-> TRUE, objects |-> objs]
              ELSE [ok |-> FALSE, objects |-> objs]

(* Faulty variant of UpdateObject: a null value leaves the entry in the map *)
UpdateObject_KeepsOnNull(objs, id, data) ==
    IF data.json = "null"
    THEN [ok |-> TRUE, objects |-> objs]
    ELSE IF id \in DOMAIN objs
         THEN IF ParsesAsUpdate(data)
              THEN [ok |-> TRUE,
                    objects |-> [objs EXCEPT ![id] = MergeEntity(@, data)]]
              ELSE [ok |-> FALSE, objects |-> objs]
         ELSE IF ParsesAsEntity(data)
              THEN [ok |-> TRUE, objects |-> MapInsert(objs, id, ParseEntity(id, data))]
              ELSE [ok |-> FALSE, objects |-> objs]

(* Faulty variant of UpdateObject: an occupied entry is overwritten by the payload *)
(* parsed as a complete entity, as a vacant one is                         *)
UpdateObject_InsertsOnOccupied(objs, id, data) ==
    IF data.json = "null"
    THEN [ok |-> TRUE, objects |-> MapRemove(objs, id)]
    ELSE IF ParsesAsEntity(data)
         THEN [ok |-> TRUE, objects |-> MapInsert(objs, id, ParseEntity(id, data))]
         ELSE [ok |-> FALSE, objects |-> objs]

(* Room::update, one entry of the object set *)
UpdateObject(objs, id, data) ==
    IF data.json = "null"
    THEN [ok |-> TRUE, objects |-> MapRemove(objs, id)]
    ELSE IF id \in DOMAIN objs
         THEN IF ParsesAsUpdate(data)
              THEN [ok |-> TRUE,
                    objects |-> [objs EXCEPT ![id] = MergeEntity(@, data)]]
              ELSE [ok |-> FALSE, objects |-> objs]
         ELSE IF ParsesAsEntity(data)
              THEN [ok |-> TRUE, objects |-> MapInsert(objs, id, ParseEntity(id, data))]
              ELSE [ok |-> FALSE, objects |-> objs]

(* Faulty variant of UpdateObjects: a failing entry rolls the earlier ones back *)
RECURSIVE ObjectsLoopFrom(_, _, _, _)
ObjectsLoopFrom(start, objs, dobjs, order) ==
    IF order = <<>> THEN [ok |-> TRUE, objects |-> objs]
    ELSE LET r == UpdateObject(objs, Head(order), dobjs[Head(order)])
         IN  IF r.ok THEN ObjectsLoopFrom(start, r.objects, dobjs, Tail(order))
             ELSE [ok |-> FALSE, objects |-> start]

UpdateObjects_RollsBack(objs, dobjs, order) == ObjectsLoopFrom(objs, objs, dobjs, order)

(* Faulty variant of UpdateObjects: the loop returns Ok after its first entry *)
UpdateObjects_FirstOnly(objs, dobjs, order) ==
    IF order = <<>> THEN [ok |-> TRUE, objects |-> objs]
    ELSE UpdateObject(objs, Head(order), dobjs[Head(order)])

(* Room::update, the loop over the object set in iteration order `order`;  *)
(* `?` returns at the first entry that fails to deserialize                *)
RECURSIVE UpdateObjects(_, _, _)
UpdateObjects(objs, dobjs, order) ==
    IF order = <<>> THEN [ok |-> TRUE, objects |-> objs]
    ELSE LET r == UpdateObject(objs, Head(order), dobjs[Head(order)])
         IN  IF r.ok THEN UpdateObjects(r.objects, dobjs, Tail(order)) ELSE r

(* Room::update, one entry of the user set *)
UpdateUser(us, id, data) ==
    IF data.json = "null"
    THEN [ok |-> TRUE, users |-> MapRemove(us, id)]
    ELSE IF id \in DOMAIN us
         THEN IF ParsesAsUserUpdate(data)
              THEN [ok |-> TRUE, users |-> [us EXCEPT ![id] = MergeUser(@, data)]]
              ELSE [ok |-> FALSE, users |-> us]
         ELSE IF ParsesAsUser(data)
              THEN [ok |-> TRUE, users |-> MapInsert(us, id, ParseUser(data))]
              ELSE [ok |-> FALSE, users |-> us]

(* Room::update, the loop over the entries of a user set *)
RECURSIVE UsersLoop(_, _, _)
UsersLoop(us, uset, order) ==
    IF order = <<>> THEN [ok |-> TRUE, users |-> us]
    ELSE LET r == UpdateUser(us, Head(order), uset[Head(order)])
         IN  IF r.ok THEN UsersLoop(r.users, uset, Tail(order)) ELSE r

(* Faulty variant of UpdateUsers: an absent user set empties the user map *)
UpdateUsers_ClearsOnAbsent(us, dusers, order) ==
    IF IsSome(dusers) THEN UsersLoop(us, Unwrap(dusers), order)
    ELSE [ok |-> TRUE, users |-> << >>]

(* Room::update, the users: update.users.into_iter().flat_map(|x| x)       *)
(* yields no entry for an absent set                                       *)
UpdateUsers(us, dusers, order) ==
    IF IsSome(dusers) THEN UsersLoop(us, Unwrap(dusers), order)
    ELSE [ok |-> TRUE, users |-> us]

UserKeys(dusers) == IF IsSome(dusers) THEN DOMAIN Unwrap(dusers) ELSE {}

(* Faulty variant of UpdateTime: only a newer game_time overwrites the timestamp *)
UpdateTime_OnlyNewer(old, game_time) ==
    IF IsSome(game_time) /\ (old = None \/ Unwrap(old) < Unwrap(game_time))
    THEN game_time ELSE old

(* Room::update, the timestamp *)
UpdateTime(old, game_time) == IF IsSome(game_time) THEN game_time ELSE old

(* Faulty variant of UpdateFlags: the delta's flags are appended to the old ones *)
UpdateFlags_Appends(old, dflags) == old \o dflags

(* Room::update, the flags *)
UpdateFlags(old, dflags) == dflags

-----------------------------------------------------------------------------
(* The deltas the model applies *)
ObjectIds == {"c1", "c2"}
UserIds == {"u1"}
Times == 1 .. MaxTime
XVals == {1, 2}
YVals == {1}
PayloadKinds == {"Road", "Creep"}

PartialPayloads ==
    {JsonObject(None, x, y) : x \in {None} \cup {Some(v) : v \in XVals},
                              y \in {None} \cup {Some(v) : v \in YVals}}
CompletePayloads ==
    {JsonObject(Some(k), Some(x), Some(y)) : k \in PayloadKinds, x \in XVals, y \in YVals}

Payloads(id) ==
    IF id = "c1"
    THEN {JsonNull, JsonMalformed} \cup PartialPayloads \cup CompletePayloads
    ELSE {JsonNull, JsonMalformed, JsonObject(None, Some(2), None),
          JsonObject(Some("Road"), Some(1), Some(1))}

ObjectSets ==
    UNION {{f \in [S -> UNION {Payloads(i) : i \in S}] : \A i \in S : f[i] \in Payloads(i)}
           : S \in SUBSET ObjectIds}

PlainObjectSets ==
    {<< >>, [i \in {"c1"} |-> JsonMalformed],
     [i \in {"c1"} |-> JsonObject(Some("Creep"), Some(1), Some(1))],
     [i \in {"c2"} |-> JsonObject(Some("Road"), Some(1), Some(1))]}

FlagAlpha == [name |-> "Alpha", primary_color |-> 1, x |-> 1, y |-> 1]
FlagAlpha2 == [name |-> "Alpha", primary_color |-> 2, x |-> 1, y |-> 1]
FlagBeta == [name |-> "Beta", primary_color |-> 1, x |-> 1, y |-> 1]
FlagVals == {FlagAlpha, FlagAlpha2, FlagBeta}

FlagLists == SeqsUpTo(FlagVals, MaxFlags)

UserPayloads ==
    {UserNull, UserMalformed, UserObject(Some("u1"), Some("ann")),
     UserObject(None, Some("bob"))}

UserSets ==
    {None} \cup {Some(f) : f \in UNION {[S -> UserPayloads] : S \in SUBSET UserIds}}

(* Deltas with every object set, the rest of the delta from a few values *)
ObjectDeltas ==
    [game_time : {None, Some(1)},
     objects : ObjectSets,
     flags : {<< >>, <<FlagAlpha>>},
     users : {None, Some([i \in {"u1"} |-> UserMalformed])}]

(* Deltas with every flag list, the rest of the delta from a few values *)
FlagDeltas ==
    [game_time : {None},
     objects : PlainObjectSets,
     flags : FlagLists,
     users : {None, Some([i \in {"u1"} |-> UserMalformed])}]

(* Deltas with every timestamp and user set, the rest from a few values *)
MetaDeltas ==
    [game_time : {None} \cup {Some(t) : t \in Times},
     objects : {<< >>, [i \in {"c1"} |-> JsonMalformed],
                [i \in {"c1"} |-> JsonObject(Some("Creep"), Some(1), Some(1))]},
     flags : {<< >>, <<FlagAlpha>>},
     users : UserSets]

-----------------------------------------------------------------------------
RoomName == "W1N1"

(* Nothing applied yet: no call failed, no id was mentioned *)
NoHistory == [clean |-> TRUE, last |-> [id \in ObjectIds |-> "never"]]

TheTerrain ==
    [row \in Coords |-> [col \in Coords |->
        IF row = 1 /\ col = 1 THEN "Swamp"
        ELSE IF row = 2 /\ col = 2 THEN "Wall"
        ELSE IF row = 1 /\ col = 0 THEN "SwampyWall"
        ELSE "Plains"]]

(* Room::new *)
Init ==
    /\ last_update_time = None
    /\ room = [shard |-> None, room_name |-> RoomName]
    /\ terrain = [room_name |-> RoomName, terrain |-> TheTerrain]
    /\ objects = << >>
    /\ flags = << >>
    /\ users = << >>
    /\ call = None
    /\ vis = None
    /\ carried = None
    /\ probe = None
    /\ verdict = None
    /\ new_call = Some([room |-> [shard |-> None, room_name |-> RoomName],
                        terrain_name |-> RoomName, result |-> "Ok"])
    /\ history = NoHistory

RoomState == [last_update_time |-> last_update_time, objects |-> objects,
              flags |-> flags, users |-> users]

(* Faulty variant of Update: the flags are replaced before the object set *)
(* is processed                                                            *)
Update_FlagsFirst(d, order, uorder) ==
    /\ last_update_time' = UpdateTime(last_update_time, d.game_time)
    /\ LET o == UpdateObjects(objects, d.objects, order)
           u == UpdateUsers(users, d.users, uorder)
       IN  /\ objects' = o.objects
           /\ flags' = UpdateFlags(flags, d.flags)
           /\ users' = IF o.ok THEN u.users ELSE users
           /\ call' = Some([update |-> d, order |-> order, uorder |-> uorder,
                            before |-> RoomState,
                            result |-> IF ~o.ok THEN "ErrObjects"
                                       ELSE IF ~u.ok THEN "ErrUsers" ELSE "Ok"])
    /\ carried' = IF IsSome(d.game_time) THEN d.game_time ELSE carried
    /\ UNCHANGED <<room, terrain, vis, probe, verdict, new_call>>

(* Room::update(update), with the iteration orders of update.objects and   *)
(* update.users                                                            *)
Update(d, order, uorder) ==
    /\ last_update_time' = UpdateTime(last_update_time, d.game_time)
    /\ LET o == UpdateObjects(objects, d.objects, order)
           u == UpdateUsers(users, d.users, uorder)
       IN  /\ objects' = o.objects
           /\ flags' = IF o.ok THEN UpdateFlags(flags, d.flags) ELSE flags
           /\ users' = IF o.ok THEN u.users ELSE users
           /\ call' = Some([update |-> d, order |-> order, uorder |-> uorder,
                            before |-> RoomState,
                            result |-> IF ~o.ok THEN "ErrObjects"
                                       ELSE IF ~u.ok THEN "ErrUsers" ELSE "Ok"])
    /\ carried' = IF IsSome(d.game_time) THEN d.game_time ELSE carried
    /\ UNCHANGED <<room, terrain, vis, probe, verdict, new_call>>

(* The caller calls Room::update with a delta of DS while it holds no      *)
(* earlier Result and no VisualRoom                                        *)
UpdateCall(DS) ==
    /\ call = None /\ vis = None
    /\ \E d \in DS : \E order \in Orders(DOMAIN d.objects) :
         \E uorder \in Orders(UserKeys(d.users)) : Update(d, order, uorder)
    /\ UNCHANGED history

(* The caller drops the Result and the VisualRoom it holds *)
Drop ==
    /\ call # None \/ vis # None
    /\ call' = None /\ vis' = None
    /\ UNCHANGED <<last_update_time, room, terrain, objects, flags, users,
                   carried, probe, verdict, new_call, history>>

-----------------------------------------------------------------------------
(* enum RoomObjectType, in declaration order: the derived Ord compares the *)
(* positions                                                               *)
RoomObjectTypes ==
    <<"Road", "Container", "Tombstone", "Resource", "Rampart", "Wall", "Source",
      "Mineral", "KeeperLair", "Controller", "Extractor", "Extension", "Spawn",
      "Portal", "Link", "Storage", "Tower", "Observer", "PowerBank", "PowerSpawn",
      "Lab", "Terminal", "Nuker", "Creep">>

(* enum InterestingTerrainType, in declaration order *)
InterestingTerrainTypes == <<"Swamp", "Wall">>

IndexOf(seq, e) == CHOOSE i \in 1 .. Len(seq) : seq[i] = e

(* The strings of the model in byte order, as String::cmp orders them *)
StringsInByteOrder == <<"Alpha", "Beta", "c1", "c2">>

IntCmp(a, b) == IF a < b THEN "Less" ELSE IF a = b THEN "Equal" ELSE "Greater"
StrCmp(a, b) == IntCmp(IndexOf(StringsInByteOrder, a), IndexOf(StringsInByteOrder, b))
Then(first, second) == IF first = "Equal" THEN second ELSE first

(* RoomObjectType::of *)
RoomObjectTypeOf(obj) == obj.kind

(* InterestingTerrainType::from_terrain *)
from_terrain(t) ==
    IF t = "Plains" THEN None
    ELSE IF t = "Swamp" THEN Some("Swamp")
    ELSE Some("Wall")

(* enum VisualObject *)
InterestingTerrain(x, y, ty) == [variant |-> "InterestingTerrain", x |-> x, y |-> y, ty |-> ty]
FlagObject(f) == [variant |-> "Flag", flag |-> f]
RoomObject(obj) == [variant |-> "RoomObject", obj |-> obj]

(* VisualObject::x, VisualObject::y *)
VisX(v) ==
    IF v.variant = "InterestingTerrain" THEN v.x
    ELSE IF v.variant = "Flag" THEN v.flag.x ELSE v.obj.x
VisY(v) ==
    IF v.variant = "InterestingTerrain" THEN v.y
    ELSE IF v.variant = "Flag" THEN v.flag.y ELSE v.obj.y

(* Faulty variant of Eq: room objects are compared field by field *)
Eq_WholeObject(a, b) ==
    IF a.variant = "InterestingTerrain" /\ b.variant = "InterestingTerrain"
    THEN a.ty = b.ty /\ a.x = b.x /\ a.y = b.y
    ELSE IF a.variant = "Flag" /\ b.variant = "Flag"
    THEN a.flag = b.flag
    ELSE IF a.variant = "RoomObject" /\ b.variant = "RoomObject"
    THEN a.obj = b.obj
    ELSE FALSE

(* impl PartialEq for VisualObject *)
Eq(a, b) ==
    IF a.variant = "InterestingTerrain" /\ b.variant = "InterestingTerrain"
    THEN a.ty = b.ty /\ a.x = b.x /\ a.y = b.y
    ELSE IF a.variant = "Flag" /\ b.variant = "Flag"
    THEN a.flag = b.flag
    ELSE IF a.variant = "RoomObject" /\ b.variant = "RoomObject"
    THEN RoomObjectTypeOf(a.obj) = RoomObjectTypeOf(b.obj) /\ a.obj.id = b.obj.id
    ELSE FALSE

(* Faulty variant of Cmp: room objects are ordered by id before kind *)
Cmp_IdFirst(a, b) ==
    IF a.variant = "InterestingTerrain" /\ b.variant = "InterestingTerrain"
    THEN Then(Then(IntCmp(IndexOf(InterestingTerrainTypes, a.ty),
                          IndexOf(InterestingTerrainTypes, b.ty)),
                   IntCmp(a.x, b.x)),
              IntCmp(a.y, b.y))
    ELSE IF a.variant = "InterestingTerrain" THEN "Less"
    ELSE IF b.variant = "InterestingTerrain" THEN "Greater"
    ELSE IF a.variant = "Flag" /\ b.variant = "Flag" THEN StrCmp(a.flag.name, b.flag.name)
    ELSE IF a.variant = "Flag" THEN "Less"
    ELSE IF b.variant = "Flag" THEN "Greater"
    ELSE Then(StrCmp(a.obj.id, b.obj.id),
              IntCmp(IndexOf(RoomObjectTypes, RoomObjectTypeOf(a.obj)),
                     IndexOf(RoomObjectTypes, RoomObjectTypeOf(b.obj))))

(* impl Ord for VisualObject *)
Cmp(a, b) ==
    IF a.variant = "InterestingTerrain" /\ b.variant = "InterestingTerrain"
    THEN Then(Then(IntCmp(IndexOf(InterestingTerrainTypes, a.ty),
                          IndexOf(InterestingTerrainTypes, b.ty)),
                   IntCmp(a.x, b.x)),
              IntCmp(a.y, b.y))
    ELSE IF a.variant = "InterestingTerrain" THEN "Less"
    ELSE IF b.variant = "InterestingTerrain" THEN "Greater"
    ELSE IF a.variant = "Flag" /\ b.variant = "Flag" THEN StrCmp(a.flag.name, b.flag.name)
    ELSE IF a.variant = "Flag" THEN "Less"
    ELSE IF b.variant = "Flag" THEN "Greater"
    ELSE Then(IntCmp(IndexOf(RoomObjectTypes, RoomObjectTypeOf(a.obj)),
                     IndexOf(RoomObjectTypes, RoomObjectTypeOf(b.obj))),
              StrCmp(a.obj.id, b.obj.id))

-----------------------------------------------------------------------------
Cells == Coords \X Coords

(* Faulty variant of NewVisualRoom: the timestamp is not carried over *)
NewVisualRoom_NoTime(time, id) ==
    [panicked |-> FALSE, last_update_time |-> None, room_id |-> id,
     objs |-> [x \in Coords |-> [y \in Coords |-> << >>]]]

(* VisualRoom::new: the grid objs[x][y] of empty stacks; `panicked` marks   *)
(* the call that aborted instead of returning a VisualRoom                 *)
NewVisualRoom(time, id) ==
    [panicked |-> FALSE, last_update_time |-> time, room_id |-> id,
     objs |-> [x \in Coords |-> [y \in Coords |-> << >>]]]

(* Faulty variant of push_top: the item goes to the stack of cell (y, x) *)
push_top_Transposed(vr, item) ==
    IF vr.panicked THEN vr
    ELSE IF <<VisX(item), VisY(item)>> \in Cells
    THEN [vr EXCEPT !.objs[VisY(item)][VisX(item)] = Append(@, item)]
    ELSE [vr EXCEPT !.panicked = TRUE]

(* Faulty variant of push_top: an item with no cell is silently dropped *)
push_top_Drops(vr, item) ==
    IF vr.panicked THEN vr
    ELSE IF <<VisX(item), VisY(item)>> \in Cells
    THEN [vr EXCEPT !.objs[VisX(item)][VisY(item)] = Append(@, item)]
    ELSE vr

(* VisualRoom::push_top: objs[[x, y]], and the panic of expect() when no   *)
(* such cell exists                                                        *)
push_top(vr, item) ==
    IF vr.panicked THEN vr
    ELSE IF <<VisX(item), VisY(item)>> \in Cells
    THEN [vr EXCEPT !.objs[VisX(item)][VisY(item)] = Append(@, item)]
    ELSE [vr EXCEPT !.panicked = TRUE]

RECURSIVE PushAll(_, _)
PushAll(vr, items) ==
    IF items = << >> THEN vr ELSE PushAll(push_top(vr, Head(items)), Tail(items))

(* Room::visualize, the terrain loop: rows, then columns; x is the column  *)
RECURSIVE TerrainItems(_, _)
TerrainItems(terr, k) ==
    IF k = GridSize * GridSize THEN << >>
    ELSE LET row == k \div GridSize
             col == k % GridSize
             itt == from_terrain(terr[row][col])
         IN  (IF IsSome(itt) THEN <<InterestingTerrain(col, row, Unwrap(itt))>> ELSE << >>)
             \o TerrainItems(terr, k + 1)

(* Room::visualize before the sort: terrain, flags, then the objects in    *)
(* the iteration order `order` of the object map                           *)
Pushed(rs, terr, id, order) ==
    PushAll(NewVisualRoom(rs.last_update_time, id),
            TerrainItems(terr, 0)
            \o [i \in 1 .. Len(rs.flags) |-> FlagObject(rs.flags[i])]
            \o [i \in 1 .. Len(order) |-> RoomObject(rs.objects[order[i]])])

SeqRemove(s, i) == [j \in 1 .. (Len(s) - 1) |-> IF j < i THEN s[j] ELSE s[j + 1]]

(* Faulty variant of sort_unstable: the stack is left as pushed *)
sort_unstable_Unsorted(s) == {s}

(* slice::sort_unstable: every arrangement of the stack that is in         *)
(* comparator order; elements that compare Equal may come out in any order *)
RECURSIVE sort_unstable(_)
sort_unstable(s) ==
    IF s = << >> THEN {<< >>}
    ELSE UNION {{<<s[i]>> \o rest : rest \in sort_unstable(SeqRemove(s, i))}
                : i \in {j \in 1 .. Len(s) :
                            \A k \in 1 .. Len(s) : Cmp(s[k], s[j]) # "Less"}}

(* Room::visualize, the sort loop: every grid the sorts can leave *)
RECURSIVE SortAll(_, _)
SortAll(objs, cells) ==
    IF cells = {} THEN {objs}
    ELSE LET c == CHOOSE c \in cells : TRUE
         IN  UNION {SortAll([objs EXCEPT ![c[1]][c[2]] = sorted], cells \ {c})
                    : sorted \in sort_unstable(objs[c[1]][c[2]])}

(* Room::visualize: every VisualRoom a call may return *)
VisualRooms(rs, terr, id) ==
    UNION {LET vr == Pushed(rs, terr, id, order)
           IN  IF vr.panicked THEN {vr}
               ELSE {[vr EXCEPT !.objs = g] : g \in SortAll(vr.objs, Cells)}
           : order \in Orders(DOMAIN rs.objects)}

Visualize ==
    /\ vis = None
    /\ \E vr \in VisualRooms(RoomState, terrain.terrain, room) : vis' = Some(vr)
    /\ UNCHANGED <<last_update_time, room, terrain, objects, flags, users, call,
                   carried, probe, verdict, new_call, history>>

-----------------------------------------------------------------------------
UpdateObjectsCall == UpdateCall(ObjectDeltas)
UpdateFlagsCall == UpdateCall(FlagDeltas)
UpdateMetaCall == UpdateCall(MetaDeltas)

Next == UpdateObjectsCall \/ Visualize \/ Drop

(* The room under deltas that vary the object set *)
Spec == Init /\ [][Next]_vars

NextFlags == UpdateFlagsCall \/ Visualize \/ Drop

(* The room under deltas that vary the flag list *)
SpecFlags == Init /\ [][NextFlags]_vars

NextMeta == UpdateMetaCall \/ Visualize \/ Drop

(* The room under deltas that vary the timestamp and the users *)
SpecMeta == Init /\ [][NextMeta]_vars

-----------------------------------------------------------------------------
(* Deltas that place flags and objects on and off the grid: GridSize is    *)
(* the first coordinate with no cell                                      *)
FlagFarX == [name |-> "Beta", primary_color |-> 1, x |-> GridSize, y |-> 1]
FlagFarY == [name |-> "Beta", primary_color |-> 1, x |-> 1, y |-> GridSize]

EdgePayloads ==
    {JsonNull, JsonObject(None, Some(1), None), JsonObject(None, Some(GridSize), None)}
    \cup {JsonObject(Some("Creep"), Some(x), Some(y)) : x \in {1, GridSize}, y \in {1, GridSize}}

EdgeDeltas ==
    [game_time : {None},
     objects : {<< >>, [i \in {"c2"} |-> JsonObject(Some("Road"), Some(1), Some(1))]}
               \cup {[i \in {"c1"} |-> p] : p \in EdgePayloads},
     flags : SeqsUpTo({FlagAlpha, FlagFarX, FlagFarY}, MaxFlags),
     users : {None}]

UpdateEdgeCall == UpdateCall(EdgeDeltas)

NextEdge == UpdateEdgeCall \/ Visualize \/ Drop

(* The room under deltas with coordinates on and off the grid *)
SpecEdge == Init /\ [][NextEdge]_vars

-----------------------------------------------------------------------------
(* Room::new called with any RoomId and any terrain *)
RoomNames == {"W1N1", "W2N2"}
RoomIds == [shard : {None, Some("shard0")}, room_name : RoomNames]
Terrains == [room_name : RoomNames, terrain : {TheTerrain}]

(* Faulty variant of RoomNew: the names are not compared *)
RoomNew_Unchecked(id, terr) ==
    Some([last_update_time |-> None, room |-> id, terrain |-> terr,
          objects |-> << >>, flags |-> << >>, users |-> << >>])

(* Room::new: the Room, or None when assert_eq! panics *)
RoomNew(id, terr) ==
    IF id.room_name # terr.room_name THEN None
    ELSE Some([last_update_time |-> None, room |-> id, terrain |-> terr,
               objects |-> << >>, flags |-> << >>, users |-> << >>])

(* Before Room::new: there is no Room *)
InitNew ==
    /\ last_update_time = None
    /\ room = None
    /\ terrain = None
    /\ objects = << >>
    /\ flags = << >>
    /\ users = << >>
    /\ call = None
    /\ vis = None
    /\ carried = None
    /\ probe = None
    /\ verdict = None
    /\ new_call = None
    /\ history = NoHistory

New ==
    /\ new_call = None
    /\ \E id \in RoomIds, terr \in Terrains :
          LET r == RoomNew(id, terr)
          IN  /\ new_call' = Some([room |-> id, terrain_name |-> terr.room_name,
                                   result |-> IF r = None THEN "Panic" ELSE "Ok"])
              /\ IF r = None
                 THEN UNCHANGED <<last_update_time, room, terrain, objects, flags, users>>
                 ELSE /\ last_update_time' = Unwrap(r).last_update_time
                      /\ room' = Unwrap(r).room
                      /\ terrain' = Unwrap(r).terrain
                      /\ objects' = Unwrap(r).objects
                      /\ flags' = Unwrap(r).flags
                      /\ users' = Unwrap(r).users
    /\ UNCHANGED <<call, vis, carried, probe, verdict, history>>

(* Room::new returned a Room: only then is there one to update or visualize *)
Constructed == new_call # None /\ Unwrap(new_call).result = "Ok"

UpdateNewCall == Constructed /\ UpdateCall(MetaDeltas)
VisualizeNew == Constructed /\ Visualize

NextNew == New \/ UpdateNewCall \/ VisualizeNew \/ Drop

(* Construction followed by updates and visualizations *)
SpecNew == InitNew /\ [][NextNew]_vars

-----------------------------------------------------------------------------
(* The history of the calls: whether all returned Ok, and for each id      *)
(* whether the latest delta that mentioned it carried null or a payload    *)
Mention(data) == IF data.json = "null" THEN "null" ELSE "payload"

Track(h, d, result) ==
    [clean |-> h.clean /\ result = "Ok",
     last |-> [id \in ObjectIds |->
                 IF id \in DOMAIN d.objects THEN Mention(d.objects[id]) ELSE h.last[id]]]

TrackDeltas ==
    [game_time : {None},
     objects : ObjectSets,
     flags : {<< >>},
     users : {None, Some([i \in {"u1"} |-> UserMalformed])}]

(* Room::update called from a fresh room on, with the history kept *)
UpdateTrackedCall ==
    /\ call = None /\ vis = None
    /\ \E d \in TrackDeltas : \E order \in Orders(DOMAIN d.objects) :
         \E uorder \in Orders(UserKeys(d.users)) :
            /\ Update(d, order, uorder)
            /\ history' = Track(history, d, Unwrap(call').result)

NextTrack == UpdateTrackedCall \/ Drop

SpecTrack == Init /\ [][NextTrack]_vars

-----------------------------------------------------------------------------
(* The comparator on three VisualObject values *)
ProbeObjects ==
    {[kind |-> k, id |-> i, x |-> x, y |-> 1] : k \in PayloadKinds, i \in ObjectIds, x \in XVals}

ProbeVals ==
    {InterestingTerrain(x, y, ty) : x \in XVals, y \in XVals, ty \in {"Swamp", "Wall"}}
    \cup {FlagObject(f) : f \in FlagVals \cup {[FlagAlpha EXCEPT !.x = 2]}}
    \cup {RoomObject(o) : o \in ProbeObjects}

InitCmp ==
    /\ Init!1 /\ Init!2 /\ Init!3 /\ Init!4 /\ Init!5 /\ Init!6 /\ Init!7 /\ Init!8
    /\ Init!9 /\ Init!12 /\ Init!13
    /\ probe \in {Some(t) : t \in ProbeVals \X ProbeVals \X ProbeVals}
    /\ verdict = None

(* a.cmp(&b) and a == b for each pair of the three values *)
Compare ==
    /\ verdict = None
    /\ LET t == Unwrap(probe)
       IN  verdict' = Some([cmp |-> [i \in 1 .. 3 |-> [j \in 1 .. 3 |-> Cmp(t[i], t[j])]],
                            eq |-> [i \in 1 .. 3 |-> [j \in 1 .. 3 |-> Eq(t[i], t[j])]]])
    /\ UNCHANGED <<last_update_time, room, terrain, objects, flags, users, call,
                   vis, carried, probe, new_call, history>>

NextCmp == Compare

SpecCmp == InitCmp /\ [][NextCmp]_vars

-----------------------------------------------------------------------------
(* The comparator on pairs of VisualObject values, room objects of every   *)
(* kind among them                                                         *)
KindObjects ==
    {[kind |-> RoomObjectTypes[k], id |-> i, x |-> 1, y |-> 1]
        : k \in 1 .. Len(RoomObjectTypes), i \in ObjectIds}

KindVals ==
    {InterestingTerrain(x, y, ty) : x \in XVals, y \in XVals, ty \in {"Swamp", "Wall"}}
    \cup {FlagObject(f) : f \in FlagVals}
    \cup {RoomObject(o) : o \in KindObjects}

InitKinds ==
    /\ Init!1 /\ Init!2 /\ Init!3 /\ Init!4 /\ Init!5 /\ Init!6 /\ Init!7 /\ Init!8
    /\ Init!9 /\ Init!12 /\ Init!13
    /\ probe \in {Some(<<a, b, a>>) : a \in KindVals, b \in KindVals}
    /\ verdict = None

NextKinds == Compare

SpecKinds == InitKinds /\ [][NextKinds]_vars

-----------------------------------------------------------------------------
(* What the claims speak of: the held Room::update call, its delta, the    *)
(* room before it                                                          *)
Called == call # None
TheCall == Unwrap(call)
Delta == TheCall.update
Before == TheCall.before
Result == TheCall.result

(* The entry of id does not deserialize: it is not null, and is no update  *)
(* for an id the room holds, or no complete entity for an id it lacks      *)
Fails(id) ==
    LET v == Delta.objects[id]
    IN  /\ v.json # "null"
        /\ IF id \in DOMAIN Before.objects THEN ~ParsesAsUpdate(v) ELSE ~ParsesAsEntity(v)

UserFails(id) ==
    LET v == Unwrap(Delta.users)[id]
    IN  /\ v.json # "null"
        /\ IF id \in DOMAIN Before.users THEN ~ParsesAsUserUpdate(v) ELSE ~ParsesAsUser(v)

(* The ids the object loop processed before its first failing entry *)
Applied ==
    LET order == TheCall.order
    IN  {order[i] : i \in {j \in 1 .. Len(order) : \A k \in 1 .. j : ~Fails(order[k])}}

(* The entry of id took effect: removed, merged field by field, or inserted *)
EntryApplied(id) ==
    LET v == Delta.objects[id]
    IN  IF v.json = "null" THEN id \notin DOMAIN objects
        ELSE IF id \in DOMAIN Before.objects
        THEN /\ id \in DOMAIN objects
             /\ objects[id].x = (IF v.x # None THEN v.x[1] ELSE Before.objects[id].x)
             /\ objects[id].y = (IF v.y # None THEN v.y[1] ELSE Before.objects[id].y)
             /\ objects[id].kind = Before.objects[id].kind
             /\ objects[id].id = Before.objects[id].id
        ELSE /\ id \in DOMAIN objects
             /\ objects[id] = [kind |-> v.type[1], id |-> id, x |-> v.x[1], y |-> v.y[1]]

(* The room holds for id what it held before the call *)
EntryUntouched(id) ==
    /\ id \in DOMAIN objects <=> id \in DOMAIN Before.objects
    /\ id \in DOMAIN objects => objects[id] = Before.objects[id]

(* The ids the delta sets to null and the room held *)
NullRemovals ==
    {id \in DOMAIN Delta.objects \cap DOMAIN Before.objects : Delta.objects[id].json = "null"}

Returned == vis # None /\ ~Unwrap(vis).panicked

(* Some stack of the returned grid holds the room object e, or one of id *)
InGrid(e) ==
    \E x \in Coords, y \in Coords :
        \E i \in 1 .. Len(Unwrap(vis).objs[x][y]) :
            LET v == Unwrap(vis).objs[x][y][i]
            IN  v.variant = "RoomObject" /\ (v.obj = e \/ v.obj.id = e.id)

(* C1, as stated: every id the delta sets to null and the room held is     *)
(* gone from the object map after the call, and from every grid built      *)
(* after it.                                                               *)
C1_NullAlwaysRemoves ==
    Called =>
        \A id \in NullRemovals :
            /\ id \notin DOMAIN objects
            /\ Returned => ~InGrid(Before.objects[id])

(* C1, amended: an id the delta sets to null and the room held is gone     *)
(* from the object map and from every grid built after the call when the   *)
(* loop processed its entry (no entry iterated before it failed to         *)
(* deserialize); otherwise the call returned the error first and the room  *)
(* still holds it unchanged.                                               *)
C1_NullRemovesWhenReached ==
    Called =>
        \A id \in NullRemovals :
            IF id \in Applied
            THEN /\ id \notin DOMAIN objects
                 /\ Returned => ~InGrid(Before.objects[id])
            ELSE Result = "ErrObjects" /\ EntryUntouched(id)

C1_Witness ==
    /\ Called /\ Returned
    /\ \E id \in NullRemovals \cap Applied : DOMAIN objects # {}
    /\ \E x \in Coords, y \in Coords : \E i \in 1 .. Len(Unwrap(vis).objs[x][y]) :
            Unwrap(vis).objs[x][y][i].variant = "RoomObject"

(* C2: every entry the loop processed took effect as its value says: null  *)
(* removes the id; a payload for an id the room holds overwrites the       *)
(* fields it carries and keeps the others, and the kind and id; a payload  *)
(* for an id the room lacks is stored as the complete entity it describes. *)
(* Every other id is as before the call.                                   *)
C2_EntriesApplied ==
    Called =>
        \A id \in ObjectIds :
            IF id \in Applied THEN EntryApplied(id) ELSE EntryUntouched(id)

C2_Witness ==
    /\ Called /\ Result = "Ok"
    /\ \E id \in Applied \cap DOMAIN Before.objects :
          LET v == Delta.objects[id]
          IN  /\ v.json = "object" /\ v.x # None /\ v.y = None /\ v.type = None
              /\ v.x[1] # Before.objects[id].x
              /\ objects[id].x = v.x[1]
    /\ \E id \in Applied \ DOMAIN Before.objects : id \in DOMAIN objects

(* C3, as stated: a delta with an empty flag list always leaves the flag   *)
(* list empty, whatever the flags before and the rest of the delta (and    *)
(* so the list after a call would always be the delta's).                  *)
C3_EmptyFlagsAlwaysEmpty ==
    (Called /\ Delta.flags = << >>) => flags = << >>

(* C3, amended: the flag list after the call is exactly the delta's, in    *)
(* its order, unless an entry of the object set failed to deserialize: the *)
(* call then returned before the flags, which are as before the call.      *)
C3_FlagsReplacedUnlessObjectsFail ==
    Called =>
        IF Result = "ErrObjects" THEN flags = Before.flags ELSE flags = Delta.flags

C3_Witness ==
    /\ Called /\ Result # "ErrObjects"
    /\ Len(Before.flags) = 2 /\ Delta.flags = << >> /\ flags = << >>
    /\ DOMAIN Delta.objects # {}

(* C4: the call returns an error exactly when some entry of the object set *)
(* or, with all of those deserializing, of the user set fails to           *)
(* deserialize; when the object loop fails, every entry it processed       *)
(* before stays applied.                                                   *)
C4_NotTransactional ==
    Called =>
        /\ (\E id \in DOMAIN Delta.objects : Fails(id)) <=> Result = "ErrObjects"
        /\ (\E id \in UserKeys(Delta.users) : UserFails(id)) => Result # "Ok"
        /\ Result = "ErrObjects" =>
              /\ \A id \in Applied : EntryApplied(id)
              /\ users = Before.users

C4_Witness ==
    /\ Called /\ Result = "ErrObjects"
    /\ \E id \in Applied : EntryApplied(id) /\ ~EntryUntouched(id)

(* Applying the held call's delta once more, its object set iterated in   *)
(* the order `again`                                                       *)
Reapplied(again) == UpdateObjects(objects, Delta.objects, again)

(* C5, as stated: for every id the delta carries a non-null payload for,   *)
(* applying the delta a second time leaves the stored entity of id and the *)
(* object map as the first application left them.                          *)
C5_AlwaysIdempotent ==
    Called =>
        \A id \in DOMAIN Delta.objects :
            Delta.objects[id].json # "null" =>
                \A again \in Orders(DOMAIN Delta.objects) :
                    /\ Reapplied(again).objects = objects
                    /\ id \in DOMAIN objects =>
                          /\ id \in DOMAIN Reapplied(again).objects
                          /\ Reapplied(again).objects[id] = objects[id]

(* C5, amended: a non-null payload the first application merged or         *)
(* inserted for id leaves the stored entity of id the same when the delta  *)
(* is applied again, in whatever order; the whole object map is the same,  *)
(* and the second application succeeds on the objects, when the first one  *)
(* got through its object set; and a second application that iterates in   *)
(* the order of the first always leaves the map and ends as the first did. *)
C5_IdempotentWhenApplied ==
    Called =>
        /\ Reapplied(TheCall.order).objects = objects
        /\ Reapplied(TheCall.order).ok <=> Result # "ErrObjects"
        /\ \A again \in Orders(DOMAIN Delta.objects) :
            /\ \A id \in Applied :
                  Delta.objects[id].json # "null" =>
                      /\ id \in DOMAIN Reapplied(again).objects
                      /\ Reapplied(again).objects[id] = objects[id]
            /\ Result # "ErrObjects" =>
                  Reapplied(again).ok /\ Reapplied(again).objects = objects

C5_Witness ==
    /\ Called /\ Result = "Ok"
    /\ \E id \in Applied \cap DOMAIN Before.objects :
          Delta.objects[id].json = "object" /\ objects[id] # Before.objects[id]
    /\ \E id \in Applied \ DOMAIN Before.objects : Delta.objects[id].json = "object"

(* C6: a delta's game_time, when it carries one, becomes the timestamp,    *)
(* smaller or not and whatever the call returns; without one the timestamp *)
(* stays. So the timestamp is always the game_time of the latest delta     *)
(* that carried one.                                                       *)
C6_LastWriteWins ==
    /\ Called =>
          last_update_time =
              (IF Delta.game_time # None THEN Delta.game_time ELSE Before.last_update_time)
    /\ last_update_time = carried

C6_Witness ==
    /\ Called
    /\ Before.last_update_time = Some(2) /\ Delta.game_time = Some(1)
    /\ last_update_time = Some(1)

(* C7: a delta without a user set leaves the user map as it was and is no  *)
(* error of its own: the timestamp is set, the call fails only on the      *)
(* object set, and otherwise every object entry and the flags are applied. *)
C7_AbsentUsersNoChange ==
    (Called /\ Delta.users = None) =>
        /\ users = Before.users
        /\ Result # "ErrUsers"
        /\ Delta.game_time # None => last_update_time = Delta.game_time
        /\ Result = "Ok" <=> \A id \in DOMAIN Delta.objects : ~Fails(id)
        /\ Result = "Ok" =>
              /\ flags = Delta.flags
              /\ \A id \in DOMAIN Delta.objects : EntryApplied(id)

C7_Witness ==
    /\ Called /\ Delta.users = None /\ Result = "Ok"
    /\ DOMAIN Before.users # {} /\ users = Before.users
    /\ flags # Before.flags /\ objects # Before.objects
    /\ last_update_time # Before.last_update_time

(* C8: on the three probed values the comparator is a strict total order: *)
(* for each pair exactly one of a < b, a == b, b < a; cmp gives Equal only *)
(* for values that are ==; and a < b, b < c give a < c.                    *)
C8_StrictTotalOrder ==
    verdict # None =>
        LET v == Unwrap(verdict)
            Lt(i, j) == v.cmp[i][j] = "Less"
        IN  /\ \A i \in 1 .. 3, j \in 1 .. 3 :
                  /\ Cardinality({n \in 1 .. 3 :
                        \/ n = 1 /\ Lt(i, j)
                        \/ n = 2 /\ v.eq[i][j]
                        \/ n = 3 /\ Lt(j, i)}) = 1
                  /\ v.cmp[i][j] = "Equal" => v.eq[i][j]
            /\ \A i \in 1 .. 3, j \in 1 .. 3, k \in 1 .. 3 :
                  (Lt(i, j) /\ Lt(j, k)) => Lt(i, k)

(* What the comparator does satisfy on the probed values: cmp alone is a   *)
(* total preorder (reflexive, antisymmetric as a three-way result,         *)
(* transitive) and == implies Equal                                        *)
CmpIsTotalPreorder ==
    verdict # None =>
        LET v == Unwrap(verdict)
            Le(i, j) == v.cmp[i][j] # "Greater"
        IN  /\ \A i \in 1 .. 3, j \in 1 .. 3 :
                  /\ v.cmp[i][j] = "Less" <=> v.cmp[j][i] = "Greater"
                  /\ v.cmp[i][j] = "Equal" <=> v.cmp[j][i] = "Equal"
                  /\ v.eq[i][j] => v.cmp[i][j] = "Equal"
            /\ \A i \in 1 .. 3, j \in 1 .. 3, k \in 1 .. 3 :
                  (Le(i, j) /\ Le(j, k)) => Le(i, k)

VariantRank(v) ==
    IF v.variant = "InterestingTerrain" THEN 1 ELSE IF v.variant = "Flag" THEN 2 ELSE 3

Stack(x, y) == Unwrap(vis).objs[x][y]

(* The room of the scenario: Swamp at (1,1), Wall at (2,2), the one flag   *)
(* "Alpha" at (1,1) and the one object, Creep c1, at (1,1)                 *)
Scenario ==
    /\ terrain.terrain[1][1] = "Swamp" /\ terrain.terrain[2][2] = "Wall"
    /\ Len(flags) = 1 /\ flags[1].name = "Alpha" /\ flags[1].x = 1 /\ flags[1].y = 1
    /\ DOMAIN objects = {"c1"}
    /\ objects["c1"] = [kind |-> "Creep", id |-> "c1", x |-> 1, y |-> 1]

(* C9: every stack of a returned grid is in non-decreasing comparator      *)
(* order, terrain markers before flags before room objects; in the         *)
(* scenario cell (1,1) holds the Swamp marker, the flag, the Creep, in     *)
(* that order, and cell (2,2) the Wall marker only.                        *)
C9_StacksSorted ==
    Returned =>
        /\ \A x \in Coords, y \in Coords :
              \A i \in 1 .. Len(Stack(x, y)), j \in 1 .. Len(Stack(x, y)) :
                  i < j => /\ Cmp(Stack(x, y)[i], Stack(x, y)[j]) # "Greater"
                           /\ VariantRank(Stack(x, y)[i]) <= VariantRank(Stack(x, y)[j])
        /\ Scenario =>
              /\ Stack(1, 1) = <<InterestingTerrain(1, 1, "Swamp"), FlagObject(flags[1]),
                                 RoomObject(objects["c1"])>>
              /\ Stack(2, 2) = <<InterestingTerrain(2, 2, "Wall")>>

C9_Witness ==
    /\ Returned /\ Scenario
    /\ Len(Stack(1, 1)) = 3 /\ Len(Stack(2, 2)) = 1

(* C10: a returned VisualRoom is the only one the room can yield: every    *)
(* iteration order of the object map and every outcome of the unstable     *)
(* sorts gives the same stacks.                                            *)
C10_Deterministic ==
    vis # None =>
        \A vr \in VisualRooms(RoomState, terrain.terrain, room) : vr = Unwrap(vis)

(* Some flag or object of the room has an x or y with no cell in the grid *)
OffGrid ==
    \/ \E i \in 1 .. Len(flags) : flags[i].x \notin Coords \/ flags[i].y \notin Coords
    \/ \E id \in DOMAIN objects : objects[id].x \notin Coords \/ objects[id].y \notin Coords

(* C11: Room::visualize panics, and returns no VisualRoom, exactly when    *)
(* some flag or object of the room has an x or y outside the grid; such an *)
(* entity is never dropped or moved to a cell so that the call returns.    *)
C11_OffGridPanics ==
    vis # None => (Unwrap(vis).panicked <=> OffGrid)

C11_Witness ==
    /\ vis # None /\ Unwrap(vis).panicked
    /\ \E i \in 1 .. Len(flags) : flags[i].x \in Coords /\ flags[i].y \in Coords
    /\ \E id \in DOMAIN objects : objects[id].x = GridSize /\ objects[id].y \in Coords

(* C12: Room::new returns a Room exactly when the RoomId and the terrain   *)
(* carry the same room name; when they differ it panics, no Room exists    *)
(* and no update is ever applied; and every Room, after any updates, has   *)
(* the RoomId it was built with and a terrain of the same room name.       *)
C12_NamesMatch ==
    IF new_call = None THEN room = None /\ call = None /\ vis = None
    ELSE LET c == Unwrap(new_call)
         IN  /\ c.result = "Ok" <=> c.room.room_name = c.terrain_name
             /\ c.result = "Ok" =>
                   /\ room = c.room
                   /\ terrain.room_name = c.terrain_name
                   /\ terrain.room_name = room.room_name
             /\ c.result = "Panic" =>
                   /\ room = None /\ terrain = None
                   /\ call = None /\ vis = None
                   /\ objects = << >> /\ flags = << >> /\ users = << >>
                   /\ last_update_time = None

C12_Witness ==
    /\ new_call # None
    /\ Unwrap(new_call).result = "Panic"
    /\ Unwrap(new_call).room.room_name # Unwrap(new_call).terrain_name

(* C13: a Room::visualize call leaves the room's timestamp, id, terrain,   *)
(* objects, flags and users as they were, however many calls came before,  *)
(* and the VisualRoom it returns carries the room's timestamp and id.      *)
C13_VisualizePure ==
    [][(vis = None /\ vis' # None) =>
          /\ UNCHANGED <<last_update_time, room, terrain, objects, flags, users>>
          /\ ~Unwrap(vis').panicked =>
                /\ Unwrap(vis').last_update_time = last_update_time
                /\ Unwrap(vis').room_id = room]_vars

C13_Witness ==
    /\ Returned
    /\ last_update_time # None /\ Unwrap(vis).last_update_time = last_update_time
    /\ room.shard # None /\ Unwrap(vis).room_id = room
    /\ objects # << >> /\ flags # << >> /\ users # << >>

(* The order as the design words it. Strings compare by their bytes. *)
Bytes(s) ==
    CASE s = "Alpha" -> <<65, 108, 112, 104, 97>>
      [] s = "Beta" -> <<66, 101, 116, 97>>
      [] s = "c1" -> <<99, 49>>
      [] s = "c2" -> <<99, 50>>

RECURSIVE LexCmp(_, _)
LexCmp(s, t) ==
    IF s = << >> /\ t = << >> THEN "Equal"
    ELSE IF s = << >> THEN "Less"
    ELSE IF t = << >> THEN "Greater"
    ELSE IF Head(s) < Head(t) THEN "Less"
    ELSE IF Head(s) > Head(t) THEN "Greater"
    ELSE LexCmp(Tail(s), Tail(t))

KindsInOrder ==
    <<"Road", "Container", "Tombstone", "Resource", "Rampart", "Wall", "Source",
      "Mineral", "KeeperLair", "Controller", "Extractor", "Extension", "Spawn",
      "Portal", "Link", "Storage", "Tower", "Observer", "PowerBank", "PowerSpawn",
      "Lab", "Terminal", "Nuker", "Creep">>

ReferenceOrder(a, b) ==
    IF VariantRank(a) # VariantRank(b)
    THEN (IF VariantRank(a) < VariantRank(b) THEN "Less" ELSE "Greater")
    ELSE IF a.variant = "InterestingTerrain"
    THEN LexCmp(<<IF a.ty = "Swamp" THEN 0 ELSE 1, a.x, a.y>>,
                <<IF b.ty = "Swamp" THEN 0 ELSE 1, b.x, b.y>>)
    ELSE IF a.variant = "Flag"
    THEN LexCmp(Bytes(a.flag.name), Bytes(b.flag.name))
    ELSE LexCmp(<<IndexOf(KindsInOrder, a.obj.kind)>> \o Bytes(a.obj.id),
                <<IndexOf(KindsInOrder, b.obj.kind)>> \o Bytes(b.obj.id))

(* C14: for every pair of values the comparator returns what the reference *)
(* order gives: terrain marker before flag before room object; markers by  *)
(* (kind, x, y) with Swamp before Wall; flags by name in byte order; room  *)
(* objects by (kind, id) with the kinds in the order Road ... Creep.       *)
C14_CmpIsReferenceOrder ==
    verdict # None =>
        \A i \in 1 .. 3, j \in 1 .. 3 :
            Unwrap(verdict).cmp[i][j] = ReferenceOrder(Unwrap(probe)[i], Unwrap(probe)[j])

C14_Witness ==
    /\ verdict # None
    /\ Unwrap(probe)[1] = RoomObject([kind |-> "Nuker", id |-> "c2", x |-> 1, y |-> 1])
    /\ Unwrap(probe)[2] = RoomObject([kind |-> "Creep", id |-> "c1", x |-> 1, y |-> 1])
    /\ Unwrap(verdict).cmp[1][2] = "Less" /\ Unwrap(verdict).cmp[2][1] = "Greater"

(* C15: two room objects are == exactly when they have the same kind and   *)
(* the same id, whatever their positions, and exactly then the comparator  *)
(* returns Equal for them.                                                 *)
C15_RoomObjectEqByKindAndId ==
    verdict # None =>
        \A i \in 1 .. 3, j \in 1 .. 3 :
            LET a == Unwrap(probe)[i]
                b == Unwrap(probe)[j]
            IN  (a.variant = "RoomObject" /\ b.variant = "RoomObject") =>
                    /\ Unwrap(verdict).eq[i][j] <=>
                          (a.obj.kind = b.obj.kind /\ a.obj.id = b.obj.id)
                    /\ Unwrap(verdict).eq[i][j] <=> Unwrap(verdict).cmp[i][j] = "Equal"

C15_Witness ==
    /\ verdict # None
    /\ Unwrap(probe)[1].variant = "RoomObject" /\ Unwrap(probe)[2].variant = "RoomObject"
    /\ Unwrap(probe)[3].variant = "RoomObject"
    /\ Unwrap(probe)[1].obj.kind = Unwrap(probe)[2].obj.kind
    /\ Unwrap(probe)[1].obj.id = Unwrap(probe)[2].obj.id
    /\ Unwrap(probe)[1].obj.x # Unwrap(probe)[2].obj.x
    /\ Unwrap(verdict).eq[1][2] /\ ~Unwrap(verdict).eq[1][3]

(* The marker the terrain cell of column x, row y contributes, if any *)
MarkerAt(x, y) ==
    LET t == terrain.terrain[y][x]
    IN  IF t = "Plains" THEN {}
        ELSE {InterestingTerrain(x, y, IF t = "Swamp" THEN "Swamp" ELSE "Wall")}

(* How often the room puts the value v on cell (x, y) *)
Projected(x, y, v) ==
    Cardinality({m \in MarkerAt(x, y) : m = v})
    + Cardinality({i \in 1 .. Len(flags) :
                     FlagObject(flags[i]) = v /\ flags[i].x = x /\ flags[i].y = y})
    + Cardinality({id \in DOMAIN objects :
                     RoomObject(objects[id]) = v /\ objects[id].x = x /\ objects[id].y = y})

Occurrences(s, v) == Cardinality({i \in 1 .. Len(s) : s[i] = v})

RECURSIVE SumOver(_, _)
SumOver(f, S) ==
    IF S = {} THEN 0
    ELSE LET c == CHOOSE c \in S : TRUE IN f[c] + SumOver(f, S \ {c})

(* Every value the room projects or a stack of the returned grid holds *)
GridValues ==
    UNION {MarkerAt(c[1], c[2]) : c \in Cells}
    \cup {FlagObject(flags[i]) : i \in 1 .. Len(flags)}
    \cup {RoomObject(objects[id]) : id \in DOMAIN objects}
    \cup UNION {{Stack(c[1], c[2])[i] : i \in 1 .. Len(Stack(c[1], c[2]))} : c \in Cells}

(* C16: the returned grid is the projection of the room. The stack of cell *)
(* (x, y) holds each value as often as the room puts it there: one Swamp   *)
(* marker for a Swamp cell, one Wall marker for a Wall or SwampyWall cell, *)
(* nothing for Plains, every flag and every object once, each at its own   *)
(* (x, y); the stacks hold as many entries as there are non-Plains cells,  *)
(* flags and objects.                                                      *)
C16_GridIsProjection ==
    Returned =>
        /\ \A c \in Cells : \A v \in GridValues :
              Occurrences(Stack(c[1], c[2]), v) = Projected(c[1], c[2], v)
        /\ SumOver([c \in Cells |-> Len(Stack(c[1], c[2]))], Cells)
              = Cardinality({c \in Cells : terrain.terrain[c[2]][c[1]] # "Plains"})
                + Len(flags) + Cardinality(DOMAIN objects)

C16_Witness ==
    /\ Returned
    /\ DOMAIN objects = {"c1", "c2"} /\ objects["c1"].x # objects["c2"].x
    /\ Len(flags) = 1
    /\ Stack(0, 1) = <<InterestingTerrain(0, 1, "Wall")>>
    /\ Stack(1, 0) = << >>
    /\ Len(Stack(2, 1)) = 1 /\ Len(Stack(1, 1)) = 3

(* C17: when the call fails on the object set, the flags and the users are *)
(* as before the call, and the timestamp is already the delta's game_time  *)
(* if it carried one; when it fails on the user set, every object entry    *)
(* and the flag replacement of the delta are applied, the timestamp too.   *)
C17_PhaseOrder ==
    Called =>
        /\ Result = "ErrObjects" =>
              /\ flags = Before.flags
              /\ users = Before.users
              /\ Delta.game_time # None => last_update_time = Delta.game_time
        /\ Result = "ErrUsers" =>
              /\ \A id \in DOMAIN Delta.objects : EntryApplied(id)
              /\ flags = Delta.flags
              /\ Delta.game_time # None => last_update_time = Delta.game_time

C17_Witness ==
    /\ Called /\ Result = "ErrObjects"
    /\ Delta.flags # Before.flags
    /\ Delta.users # None /\ Before.users # << >>
    /\ \E id \in UserKeys(Delta.users) : Unwrap(Delta.users)[id].json = "null"
    /\ Delta.game_time # None /\ Delta.game_time # Before.last_update_time
    /\ last_update_time = Delta.game_time

(* C18: while every Room::update since Room::new returned Ok, the keys of  *)
(* the object map are exactly the ids whose latest mention in a delta      *)
(* carried a payload; an id never mentioned, or last mentioned with null,  *)
(* is not in the map.                                                      *)
C18_KeysAreLastPayloads ==
    history.clean =>
        /\ DOMAIN objects = {id \in ObjectIds : history.last[id] = "payload"}
        /\ \A id \in ObjectIds :
              history.last[id] \in {"never", "null"} => id \notin DOMAIN objects

C18_Witness ==
    /\ history.clean /\ Called /\ Result = "Ok"
    /\ history.last["c1"] = "null" /\ "c1" \in DOMAIN Before.objects
    /\ history.last["c2"] = "payload" /\ "c2" \notin DOMAIN Delta.objects
    /\ DOMAIN objects = {"c2"}

====
